---- MODULE Spec2Model ----
(***************************************************************************)
(* A model of lws (src/index.js): the Lws class, its listen(),             *)
(* createServer() and createServerEventStream() methods, and the events    *)
(* the host's event loop delivers to the servers and sockets it wires.     *)
(*                                                                         *)
(* An optional value of the options object is a set: {} is undefined,      *)
(* {v} is the value v.                                                     *)
(***************************************************************************)
EXTENDS Integers, Sequences, FiniteSets, TLC

(* ------------------------------ bounds --------------------------------- *)

\* listen() calls made on the one Lws instance
MaxCalls == 2
\* events the event loop delivers over all servers and sockets
MaxEvents == 3
\* sockets accepted by one server
MaxSockets == 1
\* the time, in milliseconds, the clock is followed for
MaxTime == 60000
\* calls of propagate and verbose events emitted on the emitters it joins
MaxLinks == 2
MaxEmits == 2
\* events of the run that follows the byte counters of the sockets of one server
MaxByteEvents == 5
\* the time and the events of the run that follows the memory-usage timers
MaxTimerTime == 180000
MaxTimerEvents == 4
\* events of the run of two servers side by side
MaxPairEvents == 6
\* sockets and events of the run in which sockets report errors
MaxErrorSockets == 2
MaxErrorEvents == 6
\* sockets and events of the run that follows the connection ids of one server
MaxIdSockets == 4
MaxIdEvents == 8

(* --------------------------- option values ----------------------------- *)

None == {}

Some(v) == {v}

Val(x) == CHOOSE v \in x : TRUE

\* t.isDefined(x)
isDefined(x) == x # None

\* the truth value JavaScript gives an optional string in a condition
Truthy(x) == x # None /\ x # Some("")

\* the default port of the merge in listen()
DefaultPort == 8000

\* the period, in milliseconds, of the memory-usage interval of listen()
MemoryUsagePeriod == 60000

\* util.builtinModules: the names of the platform's built-in modules
builtinModules == {"http", "fs"}

\* what load-module finds for a request: a module exporting a function, a
\* module exporting something else, or nothing
loadModule(request) ==
  CASE request = "lws-custom" -> "function"
    [] request \in {"lws-object", "http", "fs"} -> "object"
    [] OTHER -> "ModuleNotFound"

\* t.isFunction(module)
isFunction(module) == module = "function"

(* ------------------------------ errors --------------------------------- *)

ErrKeyCert == "--key and --cert must always be supplied together."

ErrHttpsPfx == "please use one of --https or --pfx, not both."

ErrBuiltin == "please supply a third party module name to --server, not a node built-in module name"

ErrNotFunction == "Invalid module supplied to --server, it should export a function."

ErrModuleNotFound == "ModuleNotFound"

ErrMiddleware == "MiddlewareResolutionError"

NoError == "none"

(* ---------------------------- createServer ----------------------------- *)

\* the outcome of one run of createServer: the error thrown (or none), the
\* factory class selected, whether load-module was called and whether the
\* factory was instantiated and asked to create a server
Thrown(err, resolved) ==
  [thrown |-> err, factory |-> "none", resolved |-> resolved, instantiated |-> FALSE]

Selected(factory, resolved) ==
  [thrown |-> NoError, factory |-> factory, resolved |-> resolved, instantiated |-> TRUE]

\* the selection that follows the validation
select(o) ==
  IF o.https \/ (~o.http2 /\ ((Truthy(o.key) /\ Truthy(o.cert)) \/ Truthy(o.pfx)))
  THEN Selected("HTTPS", FALSE)
  ELSE IF o.http2
  THEN Selected("HTTP2", FALSE)
  ELSE IF Truthy(o.server)
  THEN IF Val(o.server) \in builtinModules
       THEN Thrown(ErrBuiltin, FALSE)
       ELSE LET module == loadModule(Val(o.server))
            IN  IF module = "ModuleNotFound"
                THEN Thrown(ErrModuleNotFound, TRUE)
                ELSE IF isFunction(module)
                THEN Selected("UserSupplied", TRUE)
                ELSE Thrown(ErrNotFunction, TRUE)
  ELSE Selected("Base", FALSE)

\* the validation that precedes the selection
validate(o, rest) ==
  IF (Truthy(o.key) /\ ~Truthy(o.cert)) \/ (~Truthy(o.key) /\ Truthy(o.cert))
  THEN Thrown(ErrKeyCert, FALSE)
  ELSE IF o.https /\ Truthy(o.pfx)
  THEN Thrown(ErrHttpsPfx, FALSE)
  ELSE rest

(* createServer with the slips the properties below must tell from it *)

\* key and cert set selects HTTPS even when http2 is asked for
createServer_Http2Ignored(o) ==
  validate(o,
    IF o.https \/ (Truthy(o.key) /\ Truthy(o.cert)) \/ Truthy(o.pfx)
    THEN Selected("HTTPS", FALSE)
    ELSE select(o))

\* only a key without a cert is rejected
createServer_KeyOnly(o) ==
  IF Truthy(o.key) /\ ~Truthy(o.cert)
  THEN Thrown(ErrKeyCert, FALSE)
  ELSE IF o.https /\ Truthy(o.pfx)
  THEN Thrown(ErrHttpsPfx, FALSE)
  ELSE select(o)

\* https with pfx is not rejected
createServer_NoPfxCheck(o) ==
  IF (Truthy(o.key) /\ ~Truthy(o.cert)) \/ (~Truthy(o.key) /\ Truthy(o.cert))
  THEN Thrown(ErrKeyCert, FALSE)
  ELSE select(o)

\* HTTPS is selected unless http2 is asked for
createServer_HttpsByDefault(o) ==
  validate(o,
    IF o.https \/ ~o.http2
    THEN Selected("HTTPS", FALSE)
    ELSE select(o))

\* http2 is looked at before https
createServer_Http2First(o) ==
  validate(o,
    IF o.http2
    THEN Selected("HTTP2", FALSE)
    ELSE select(o))

\* the module is loaded before its name is compared with the built-in names
createServer_LoadFirst(o) ==
  LET r == select(o)
  IN  IF r.thrown = ErrBuiltin THEN validate(o, Thrown(ErrBuiltin, TRUE)) ELSE validate(o, r)

\* the two halves of the key/cert test joined by "and"
createServer_KeyCertAnd(o) ==
  IF (Truthy(o.key) /\ ~Truthy(o.cert)) /\ (~Truthy(o.key) /\ Truthy(o.cert))
  THEN Thrown(ErrKeyCert, FALSE)
  ELSE IF o.https /\ Truthy(o.pfx)
  THEN Thrown(ErrHttpsPfx, FALSE)
  ELSE select(o)

\* createServer(options), up to the choice of the factory class
createServer(o) == validate(o, select(o))

(* ------------------------- collaborators of listen --------------------- *)

\* the server a factory's create() returns: not listening, no listener of
\* this module attached; a TLS server exposes addContext
factoryCreate(factory, addContext, o) ==
  [factory |-> factory,
   addContext |-> addContext,
   options |-> o,
   maxConnections |-> None,
   keepAliveTimeout |-> Some(5000),
   factoryListeners |-> 0,
   stackListeners |-> 0,
   on |-> {},
   requestListeners |-> <<>>,
   verboseListeners |-> 0,
   listenInvoked |-> FALSE,
   listening |-> FALSE,
   closed |-> FALSE,
   cId |-> 0,
   requestId |-> 0,
   seenByApp |-> <<>>,
   sockets |-> <<>>]

\* whether the server of a factory class is a TLS server; a user-supplied
\* factory may build either kind
AddContextOf(factory) ==
  CASE factory = "HTTPS" -> {TRUE}
    [] factory = "HTTP2" -> {TRUE}
    [] factory = "UserSupplied" -> BOOLEAN
    [] OTHER -> {FALSE}

\* arrayify(options.stack)
arrayify(x) == IF x = None THEN <<>> ELSE Val(x)

\* the middleware modules that can be resolved
MiddlewareModules == {"A", "B", "C"}

\* Stack.from(specs, options): resolves the specs in order and fails at the
\* first one that cannot be resolved
RECURSIVE StackFromAt(_, _, _)
StackFromAt(specs, i, acc) ==
  IF i > Len(specs)
  THEN [thrown |-> NoError, stack |-> acc]
  ELSE IF specs[i] \in MiddlewareModules
  THEN StackFromAt(specs, i + 1, Append(acc, [middleware |-> specs[i]]))
  ELSE [thrown |-> ErrMiddleware, stack |-> <<>>]

StackFrom(specs) == StackFromAt(specs, 1, <<>>)

\* stack.getMiddlewareFunctions(options): one handler function per
\* middleware instance, in stack order
getMiddlewareFunctions(stack) ==
  [i \in 1..Len(stack) |-> <<"fn", stack[i].middleware>>]

\* util.getIPList(): the network interfaces, in interface order
getIPList == <<[address |-> "10.0.0.1"], [address |-> "192.168.1.1"]>>

\* byteSize(n).toString()
byteSize(n) == IF n < 1000 THEN <<n, "B">> ELSE <<n \div 1000, "kB">>

(* ------------------------------- state --------------------------------- *)

VARIABLES
  pc,            \* the position of the running listen() call, "idle" if none
  options,       \* the (merged) options of the running or last listen() call
  thrown,        \* the error the running or last listen() call threw
  nCalls,        \* listen() calls made
  servers,       \* the server objects created, in creation order
  aborted,       \* the servers whose listen() call threw after creating them
  resolverCalls, \* calls of load-module made by createServer
  factories,     \* server factories instantiated
  stack,         \* the validated middleware stack of the running call
  app,           \* the middleware registered with the Koa application
  timers,        \* the memory-usage intervals started, in starting order
  now,           \* the clock, in milliseconds
  emitters,      \* Lws instances and verbose sources joined by propagate
  bound,         \* the limits of the run: listen() calls, events, sockets,
                 \* clock, and the options listen() is called with
  emitted,       \* the events servers and sockets have emitted, in order
  lwsLog         \* what a 'verbose' subscriber of the Lws instance has seen

vars == <<pc, options, thrown, nCalls, servers, aborted, resolverCalls,
          factories, stack, app, timers, now, emitters, bound, emitted, lwsLog>>

\* the server the running listen() call created
cur == Len(servers)

(* --------------------------- option records ---------------------------- *)

NoOptions ==
  [port |-> None, hostname |-> None, maxConnections |-> None,
   keepAliveTimeout |-> None, https |-> FALSE, http2 |-> FALSE,
   key |-> None, cert |-> None, pfx |-> None, server |-> None,
   stack |-> None]

\* the options listen() is called with
ListenOptions ==
  { NoOptions,
    [NoOptions EXCEPT !.stack = Some(<<"A", "B", "C">>), !.hostname = Some("localhost"),
                      !.port = Some(9000), !.maxConnections = Some(0)],
    [NoOptions EXCEPT !.https = TRUE, !.stack = Some(<<"B", "A">>),
                      !.hostname = Some("localhost"), !.port = Some(9000),
                      !.keepAliveTimeout = Some(0)],
    [NoOptions EXCEPT !.http2 = TRUE, !.key = Some("key.pem"), !.cert = Some("cert.pem")],
    [NoOptions EXCEPT !.pfx = Some("a.pfx"), !.maxConnections = Some(5)],
    [NoOptions EXCEPT !.server = Some("lws-custom"), !.stack = Some(<<"C">>)],
    [NoOptions EXCEPT !.server = Some("http")],
    [NoOptions EXCEPT !.server = Some("lws-object")],
    [NoOptions EXCEPT !.server = Some("nowhere")],
    [NoOptions EXCEPT !.key = Some("key.pem")],
    [NoOptions EXCEPT !.https = TRUE, !.pfx = Some("a.pfx")],
    [NoOptions EXCEPT !.stack = Some(<<"A", "missing", "C">>)] }

\* every combination of the options createServer reads
SelectOptions ==
  { [NoOptions EXCEPT !.https = h, !.http2 = h2, !.key = k, !.cert = c,
                      !.pfx = p, !.server = s] :
      h \in BOOLEAN, h2 \in BOOLEAN,
      k \in {None, Some(""), Some("key.pem")},
      c \in {None, Some(""), Some("cert.pem")},
      p \in {None, Some(""), Some("a.pfx")},
      s \in {None, Some(""), Some("http"), Some("lws-custom"),
             Some("lws-object"), Some("nowhere")} }

\* util.deepMerge({}, { port: 8000, ... }, optionsFromConfigFile, options)
deepMerge(o) ==
  [o EXCEPT !.port = IF isDefined(o.port) THEN o.port ELSE Some(DefaultPort)]

(* ------------------------ the verbose stream --------------------------- *)

\* emitter.emit('verbose', key, value) on an emitter with n 'verbose'
\* listeners registered by propagate: each re-emits the event on the Lws
\* instance
RECURSIVE emitVerbose(_, _, _, _)
emitVerbose(log, n, key, value) ==
  IF n = 0
  THEN log
  ELSE emitVerbose(Append(log, [key |-> key, value |-> value]), n - 1, key, value)

\* write(name, value)() of createServerEventStream
write(log, server, name, value) ==
  emitVerbose(log, server.verboseListeners, name, value)

\* socketProperties(socket)
socketProperties(socket) ==
  [socketId |-> socket.id,
   bytesRead |-> byteSize(socket.bytesRead),
   bytesWritten |-> byteSize(socket.bytesWritten)]

(* ------------------------------ listen() ------------------------------- *)

\* the names of the emitters propagate is followed on: two Lws instances
\* and a source of verbose events
Emitters == {"A", "B", "C"}

\* an emitter nobody listens to: the emitters propagate has subscribed to
\* it, in subscription order, and the verbose events emitted on it
NoListeners == [targets |-> <<>>, sent |-> <<>>, seen |-> <<>>]

\* a fresh Lws instance with nothing started, explored within the limits b
Start(b) ==
  /\ pc = "idle"
  /\ options = deepMerge(NoOptions)
  /\ thrown = NoError
  /\ nCalls = 0
  /\ servers = <<>>
  /\ aborted = {}
  /\ resolverCalls = 0
  /\ factories = 0
  /\ stack = <<>>
  /\ app = <<>>
  /\ timers = <<>>
  /\ now = 0
  /\ emitters = [e \in Emitters |-> NoListeners]
  /\ bound = b
  /\ emitted = <<>>
  /\ lwsLog = <<>>

Init ==
  Start([calls |-> MaxCalls, events |-> MaxEvents, sockets |-> MaxSockets,
         time |-> MaxTime, options |-> ListenOptions])

\* an exception leaves listen(): the call is over, and a server it has
\* created stays as it is
Throw(err) ==
  /\ pc' = "idle"
  /\ thrown' = err

\* listen(options): the merge of the options
Listen ==
  /\ pc = "idle"
  /\ nCalls < bound.calls
  /\ \E o \in bound.options : options' = deepMerge(o)
  /\ nCalls' = nCalls + 1
  /\ thrown' = NoError
  /\ stack' = <<>>
  /\ app' = <<>>
  /\ pc' = "createServer"
  /\ UNCHANGED <<now, emitters, bound, servers, aborted, resolverCalls, factories, timers, emitted, lwsLog>>

\* const server = this.createServer(options)
CreateServer ==
  /\ pc = "createServer"
  /\ LET r == createServer(options)
     IN  /\ resolverCalls' = resolverCalls + (IF r.resolved THEN 1 ELSE 0)
         /\ factories' = factories + (IF r.instantiated THEN 1 ELSE 0)
         /\ IF r.thrown # NoError
            THEN /\ Throw(r.thrown)
                 /\ UNCHANGED servers
            ELSE /\ \E addContext \in AddContextOf(r.factory) :
                      servers' = Append(servers,
                        [factoryCreate(r.factory, addContext, options)
                           EXCEPT !.factoryListeners = 1])
                 /\ pc' = "tune"
                 /\ UNCHANGED thrown
  /\ UNCHANGED <<now, emitters, bound, options, nCalls, aborted, stack, app, timers, emitted, lwsLog>>

\* the two assignments guarded by the truth value of the option: 0 is skipped
tune_Truthy(server, o) ==
  [server EXCEPT
     !.maxConnections =
        IF isDefined(o.maxConnections) /\ o.maxConnections # Some(0)
        THEN o.maxConnections ELSE @,
     !.keepAliveTimeout =
        IF isDefined(o.keepAliveTimeout) /\ o.keepAliveTimeout # Some(0)
        THEN o.keepAliveTimeout ELSE @]

\* the two post-creation assignments of listen()
tune(server, o) ==
  [server EXCEPT
     !.maxConnections =
        IF isDefined(o.maxConnections) THEN o.maxConnections ELSE @,
     !.keepAliveTimeout =
        IF isDefined(o.keepAliveTimeout) THEN o.keepAliveTimeout ELSE @]

Tune ==
  /\ pc = "tune"
  /\ servers' = [servers EXCEPT ![cur] = tune(@, options)]
  /\ pc' = "eventStream"
  /\ UNCHANGED <<now, emitters, bound, options, thrown, nCalls, aborted, resolverCalls, factories,
                 stack, app, timers, emitted, lwsLog>>

\* the server events createServerEventStream listens to
ServerEvents == {"connection", "close", "request", "listening"}

\* createServerEventStream without the listener of the server's 'close'
createServerEventStream_NoClose(server) ==
  [server EXCEPT
     !.on = @ \cup (ServerEvents \ {"close"}),
     !.requestListeners = Append(@, [listener |-> "requestId"]),
     !.cId = 1,
     !.requestId = 1]

\* createServerEventStream(server, options): the listeners it attaches to
\* the server and the two counters it starts
createServerEventStream(server) ==
  [server EXCEPT
     !.on = @ \cup ServerEvents,
     !.requestListeners = Append(@, [listener |-> "requestId"]),
     !.cId = 1,
     !.requestId = 1]

EventStream ==
  /\ pc = "eventStream"
  /\ servers' = [servers EXCEPT ![cur] = createServerEventStream(@)]
  /\ pc' = "propagate"
  /\ UNCHANGED <<now, emitters, bound, options, thrown, nCalls, aborted, resolverCalls, factories,
                 stack, app, timers, emitted, lwsLog>>

\* propagate(from), for from the server: one more 'verbose' listener on it
propagate(server) ==
  [server EXCEPT !.verboseListeners = @ + 1]

Propagate ==
  /\ pc = "propagate"
  /\ servers' = [servers EXCEPT ![cur] = propagate(@)]
  /\ pc' = "stack"
  /\ UNCHANGED <<now, emitters, bound, options, thrown, nCalls, aborted, resolverCalls, factories,
                 stack, app, timers, emitted, lwsLog>>

\* the validation of the stack with its failure caught: startup goes on
\* with an empty stack
ValidateStack_Swallow ==
  /\ pc = "stack"
  /\ LET r == StackFrom(arrayify(options.stack))
     IN  /\ stack' = r.stack
         /\ thrown' = r.thrown
         /\ aborted' = IF r.thrown # NoError THEN aborted \cup {cur} ELSE aborted
  /\ servers' = [servers EXCEPT ![cur].stackListeners = @ + 1]
  /\ pc' = "koa"
  /\ UNCHANGED <<now, emitters, bound, options, nCalls, resolverCalls, factories, app,
                 timers, emitted, lwsLog>>

\* options.stack = arrayify(options.stack), Stack.from, and the propagation
\* of the stack's verbose events
ValidateStack ==
  /\ pc = "stack"
  /\ LET r == StackFrom(arrayify(options.stack))
     IN  IF r.thrown # NoError
         THEN /\ Throw(r.thrown)
              /\ aborted' = aborted \cup {cur}
              /\ UNCHANGED <<stack, servers>>
         ELSE /\ stack' = r.stack
              /\ servers' = [servers EXCEPT ![cur].stackListeners = @ + 1]
              /\ pc' = "koa"
              /\ UNCHANGED <<thrown, aborted>>
  /\ UNCHANGED <<now, emitters, bound, options, nCalls, resolverCalls, factories, app,
                 timers, emitted, lwsLog>>

\* the registration loop putting each function in front of the earlier ones
RECURSIVE useAll_Reversed(_, _, _)
useAll_Reversed(middleware, middlewares, i) ==
  IF i > Len(middlewares)
  THEN middleware
  ELSE useAll_Reversed(<<middlewares[i]>> \o middleware, middlewares, i + 1)

\* for (const middleware of middlewares) app.use(middleware)
RECURSIVE useAll(_, _, _)
useAll(middleware, middlewares, i) ==
  IF i > Len(middlewares)
  THEN middleware
  ELSE useAll(Append(middleware, middlewares[i]), middlewares, i + 1)

\* const app = new Koa(), and the registration of the middleware
Koa ==
  /\ pc = "koa"
  /\ app' = useAll(<<>>, getMiddlewareFunctions(stack), 1)
  /\ pc' = "onRequest"
  /\ UNCHANGED <<now, emitters, bound, options, thrown, nCalls, servers, aborted, resolverCalls,
                 factories, stack, timers, emitted, lwsLog>>

\* the application callback put before the listeners the server has
onRequest_Prepended(server, middleware) ==
  [server EXCEPT
     !.requestListeners = <<[listener |-> "app", middleware |-> middleware]>> \o @]

\* server.on('request', app.callback()): the callback runs the middleware
\* registered when it was made
onRequest(server, middleware) ==
  [server EXCEPT
     !.requestListeners = Append(@, [listener |-> "app", middleware |-> middleware])]

OnRequest ==
  /\ pc = "onRequest"
  /\ servers' = [servers EXCEPT ![cur] = onRequest(@, app)]
  /\ pc' = "listen"
  /\ UNCHANGED <<now, emitters, bound, options, thrown, nCalls, aborted, resolverCalls, factories,
                 stack, app, timers, emitted, lwsLog>>

\* server.listen(options.port, options.hostname)
ServerListen ==
  /\ pc = "listen"
  /\ servers' = [servers EXCEPT ![cur].listenInvoked = TRUE]
  /\ pc' = "interval"
  /\ UNCHANGED <<now, emitters, bound, options, thrown, nCalls, aborted, resolverCalls, factories,
                 stack, app, timers, emitted, lwsLog>>

\* setInterval(callback, period) at the time t: a timer that keeps the
\* process alive and is due one period later
setInterval(t, period) ==
  [started |-> t, due |-> t + period, period |-> period, fired |-> 0, ref |-> TRUE]

\* an unref() that leaves the timer as it is
unref_Kept(timer) == timer

\* interval.unref()
unref(timer) == [timer EXCEPT !.ref = FALSE]

\* setInterval(..., 60000), interval.unref(), return server
Interval ==
  /\ pc = "interval"
  /\ timers' = Append(timers, unref(setInterval(now, MemoryUsagePeriod)))
  /\ pc' = "idle"
  /\ UNCHANGED <<now, emitters, bound, options, thrown, nCalls, servers, aborted, resolverCalls,
                 factories, stack, app, emitted, lwsLog>>

(* --------------------------- the event loop ---------------------------- *)

\* the socket events the 'connection' listener listens to
SocketEvents ==
  {"connect", "data", "drain", "timeout", "close", "error", "end", "lookup"}

\* the errors a socket reports
SocketErrors == {"ECONNRESET", "EPIPE"}

\* a socket the transport hands to the server
NewSocket ==
  [id |-> 0, bytesRead |-> 0, bytesWritten |-> 0, on |-> {},
   captured |-> [socketId |-> 0, bytesRead |-> byteSize(0), bytesWritten |-> byteSize(0)],
   open |-> TRUE]

\* EventEmitter.emit('error', err) on an emitter with no 'error' listener
\* throws err: nothing catches it and the process ends
unhandledError(socket, ev) == ev = "error" /\ "error" \notin socket.on

\* the 'connection' listener without a listener of the socket's 'error'
connectionListener_NoErrorListener(socket, cId) ==
  LET s1 == [socket EXCEPT !.id = cId]
  IN  [s1 EXCEPT !.on = SocketEvents \ {"error"}, !.captured = socketProperties(s1)]

\* the 'connection' listener: the socket gets the next id and its listeners;
\* the payloads of 'connect', 'end' and 'lookup' are made here
connectionListener(socket, cId) ==
  LET s1 == [socket EXCEPT !.id = cId]
  IN  [s1 EXCEPT !.on = SocketEvents, !.captured = socketProperties(s1)]

\* the key a socket event is written under
socketKey(ev) ==
  CASE ev = "connect" -> "server.socket.connect"
    [] ev = "data" -> "server.socket.data"
    [] ev = "drain" -> "server.socket.drain"
    [] ev = "timeout" -> "server.socket.timeout"
    [] ev = "close" -> "server.socket.close"
    [] ev = "error" -> "server.socket.error"
    [] ev = "end" -> "server.socket.end"
    [] ev = "lookup" -> "server.socket.connect"

\* the value a socket event is written with
socketValue(socket, ev, arg) ==
  CASE ev \in {"data", "drain", "timeout", "close"} -> socketProperties(socket)
    [] ev \in {"connect", "end", "lookup"} -> socket.captured
    [] ev = "error" -> [err |-> arg]

\* `${scheme}://${host}:${port}`
url(scheme, host, port) == scheme \o "://" \o host \o ":" \o ToString(port)

\* the URLs of a 'listening' listener that takes every server for a plain one
ipList_Plain(server) ==
  LET o == server.options
  IN  IF Truthy(o.hostname)
      THEN <<url("http", Val(o.hostname), Val(o.port))>>
      ELSE [i \in 1..Len(getIPList) |-> url("http", getIPList[i].address, Val(o.port))]

\* the URLs of the 'listening' listener
ipList(server) ==
  LET isSecure == server.addContext
      scheme == IF isSecure THEN "https" ELSE "http"
      o == server.options
  IN  IF Truthy(o.hostname)
      THEN <<url(scheme, Val(o.hostname), Val(o.port))>>
      ELSE [i \in 1..Len(getIPList) |-> url(scheme, getIPList[i].address, Val(o.port))]

\* the 'request' listeners with one counter for sockets and requests: the
\* request takes its id from the connection counter
RECURSIVE runRequest_SharedCounter(_, _, _)
runRequest_SharedCounter(server, i, req) ==
  IF i > Len(server.requestListeners)
  THEN server
  ELSE IF server.requestListeners[i].listener = "requestId"
  THEN runRequest_SharedCounter([server EXCEPT !.cId = @ + 1], i + 1, server.cId)
  ELSE runRequest_SharedCounter([server EXCEPT !.seenByApp = Append(@, req)], i + 1, req)

\* the 'request' listeners of a server run in the order they were attached:
\* the one of createServerEventStream numbers the request, the application
\* callback hands it to the middleware
RECURSIVE runRequest(_, _, _)
runRequest(server, i, req) ==
  IF i > Len(server.requestListeners)
  THEN server
  ELSE IF server.requestListeners[i].listener = "requestId"
  THEN runRequest([server EXCEPT !.requestId = @ + 1], i + 1, server.requestId)
  ELSE runRequest([server EXCEPT !.seenByApp = Append(@, req)], i + 1, req)

Live(s) ==
  /\ pc = "idle"
  /\ Len(emitted) < bound.events
  /\ s \in 1..Len(servers)

Emitted(s, k, ev, arg) ==
  emitted' = Append(emitted, [server |-> s, socket |-> k, ev |-> ev, arg |-> arg])

\* the server starts listening and emits 'listening'
Listening(s) ==
  /\ Live(s)
  /\ servers[s].listenInvoked /\ ~servers[s].listening /\ ~servers[s].closed
  /\ servers' = [servers EXCEPT ![s].listening = TRUE]
  /\ Emitted(s, 0, "listening", "")
  /\ lwsLog' = IF "listening" \in servers[s].on
               THEN write(lwsLog, servers[s], "server.listening", ipList(servers[s]))
               ELSE lwsLog
  /\ UNCHANGED <<now, emitters, bound, pc, options, thrown, nCalls, aborted, resolverCalls, factories,
                 stack, app, timers>>

\* the sockets all the servers have accepted
RECURSIVE Accepted(_, _)
Accepted(ss, i) ==
  IF i > Len(ss) THEN 0 ELSE Len(ss[i].sockets) + Accepted(ss, i + 1)

\* 'connection' with one counter for the whole Lws instance: the socket
\* takes the number of the sockets accepted by all the servers
Connection_InstanceCounter(s) ==
  /\ Live(s)
  /\ servers[s].listening
  /\ Len(servers[s].sockets) < bound.sockets
  /\ Emitted(s, Len(servers[s].sockets) + 1, "connection", "")
  /\ IF "connection" \in servers[s].on
     THEN LET socket == connectionListener(NewSocket, Accepted(servers, 1) + 1)
          IN  /\ servers' = [servers EXCEPT ![s].sockets = Append(@, socket),
                                            ![s].cId = @ + 1]
              /\ lwsLog' = write(lwsLog, servers[s], "server.socket.new",
                                 socketProperties(socket))
     ELSE /\ servers' = [servers EXCEPT ![s].sockets = Append(@, NewSocket)]
          /\ UNCHANGED lwsLog
  /\ UNCHANGED <<now, emitters, bound, pc, options, thrown, nCalls, aborted, resolverCalls, factories,
                 stack, app, timers>>

\* the server accepts a socket and emits 'connection'
Connection(s) ==
  /\ Live(s)
  /\ servers[s].listening
  /\ Len(servers[s].sockets) < bound.sockets
  /\ Emitted(s, Len(servers[s].sockets) + 1, "connection", "")
  /\ IF "connection" \in servers[s].on
     THEN LET socket == connectionListener(NewSocket, servers[s].cId)
          IN  /\ servers' = [servers EXCEPT ![s].sockets = Append(@, socket),
                                            ![s].cId = @ + 1]
              /\ lwsLog' = write(lwsLog, servers[s], "server.socket.new",
                                 socketProperties(socket))
     ELSE /\ servers' = [servers EXCEPT ![s].sockets = Append(@, NewSocket)]
          /\ UNCHANGED lwsLog
  /\ UNCHANGED <<now, emitters, bound, pc, options, thrown, nCalls, aborted, resolverCalls, factories,
                 stack, app, timers>>

\* the sizes, in bytes, of the chunks a socket reads or writes
Chunks == {600}

\* the socket as its listeners find it when it emits ev: 'data' follows the
\* reading of a chunk of n bytes, 'drain' the writing of one, and after
\* 'close' the socket emits nothing more
transfer(socket, ev, n) ==
  [socket EXCEPT
     !.bytesRead = IF ev = "data" THEN @ + n ELSE @,
     !.bytesWritten = IF ev = "drain" THEN @ + n ELSE @,
     !.open = (ev # "close")]

\* the socket events with the id of a closed socket handed back: 'close'
\* takes the counter one down
SocketEvent_FreesId(s, k, ev, arg) ==
  /\ Live(s)
  /\ k \in 1..Len(servers[s].sockets)
  /\ servers[s].sockets[k].open
  /\ Emitted(s, k, ev, arg)
  /\ \E n \in Chunks :
       LET socket == transfer(servers[s].sockets[k], ev, n)
       IN  /\ servers' = [servers EXCEPT
                            ![s].sockets[k] = socket,
                            ![s].cId = IF ev = "close" THEN @ - 1 ELSE @]
           /\ lwsLog' = IF ev \in socket.on
                        THEN write(lwsLog, servers[s], socketKey(ev),
                                   socketValue(socket, ev, arg))
                        ELSE lwsLog
           /\ pc' = IF unhandledError(socket, ev) THEN "exited" ELSE pc
  /\ UNCHANGED <<now, emitters, bound, options, thrown, nCalls, aborted, resolverCalls, factories,
                 stack, app, timers>>

\* an open socket emits one of its events
SocketEvent(s, k, ev, arg) ==
  /\ Live(s)
  /\ k \in 1..Len(servers[s].sockets)
  /\ servers[s].sockets[k].open
  /\ Emitted(s, k, ev, arg)
  /\ \E n \in Chunks :
       LET socket == transfer(servers[s].sockets[k], ev, n)
       IN  /\ servers' = [servers EXCEPT ![s].sockets[k] = socket]
           /\ lwsLog' = IF ev \in socket.on
                        THEN write(lwsLog, servers[s], socketKey(ev),
                                   socketValue(socket, ev, arg))
                        ELSE lwsLog
           /\ pc' = IF unhandledError(socket, ev) THEN "exited" ELSE pc
  /\ UNCHANGED <<now, emitters, bound, options, thrown, nCalls, aborted, resolverCalls, factories,
                 stack, app, timers>>

\* the errors the application reports while it handles a request
AppErrors == {"ENOENT"}

\* app.on('error', err => this.emit('verbose', 'koa.error', err))
appError(log, err) == Append(log, [key |-> "koa.error", value |-> err])

\* a request arrives on an open socket and the server emits 'request'; the
\* application, when its callback is attached, may report an error
Request(s, err) ==
  /\ Live(s)
  /\ servers[s].listening
  /\ \E k \in 1..Len(servers[s].sockets) : servers[s].sockets[k].open
  /\ Emitted(s, 0, "request", err)
  /\ servers' = [servers EXCEPT ![s] = runRequest(@, 1, 0)]
  /\ lwsLog' = IF /\ err # ""
                  /\ \E i \in 1..Len(servers[s].requestListeners) :
                        servers[s].requestListeners[i].listener = "app"
               THEN appError(lwsLog, err)
               ELSE lwsLog
  /\ UNCHANGED <<now, emitters, bound, pc, options, thrown, nCalls, aborted, resolverCalls, factories,
                 stack, app, timers>>

\* the server, all its sockets closed, stops and emits 'close'
ServerClose(s) ==
  /\ Live(s)
  /\ servers[s].listening
  /\ \A k \in 1..Len(servers[s].sockets) : ~servers[s].sockets[k].open
  /\ Emitted(s, 0, "close", "")
  /\ servers' = [servers EXCEPT ![s].listening = FALSE, ![s].closed = TRUE]
  /\ lwsLog' = IF "close" \in servers[s].on
               THEN write(lwsLog, servers[s], "server.close", None)
               ELSE lwsLog
  /\ UNCHANGED <<now, emitters, bound, pc, options, thrown, nCalls, aborted, resolverCalls, factories,
                 stack, app, timers>>

(* ------------------------ the clock and the process ------------------- *)

\* process.memoryUsage(), in bytes
MemorySamples ==
  {[rss |-> 51200, heapTotal |-> 8000, heapUsed |-> 900, external |-> 0]}

\* the callback of the interval: the four figures rendered by byteSize
memoryUsage(m) ==
  [rss |-> byteSize(m.rss), heapTotal |-> byteSize(m.heapTotal),
   heapUsed |-> byteSize(m.heapUsed), external |-> byteSize(m.external)]

\* the time the next timer is due
RECURSIVE nextDue(_, _, _)
nextDue(ts, i, t) ==
  IF i > Len(ts)
  THEN t
  ELSE nextDue(ts, i + 1, IF ts[i].due < t THEN ts[i].due ELSE t)

\* the event loop has nothing to run and waits for the next timer
Advance ==
  /\ pc = "idle"
  /\ timers # <<>>
  /\ \A i \in 1..Len(timers) : timers[i].due > now
  /\ nextDue(timers, 1, timers[1].due) <= bound.time
  /\ now' = nextDue(timers, 1, timers[1].due)
  /\ UNCHANGED <<pc, options, thrown, nCalls, servers, aborted, resolverCalls,
                 factories, stack, app, timers, emitters, bound, emitted, lwsLog>>

\* a memory-usage interval is due: its callback emits process.memoryUsage
\* on the Lws instance and the interval is scheduled again
MemoryUsage(i) ==
  /\ pc = "idle"
  /\ i \in 1..Len(timers)
  /\ timers[i].due <= now
  /\ timers' = [timers EXCEPT ![i].due = @ + timers[i].period,
                              ![i].fired = @ + 1]
  /\ \E m \in MemorySamples :
       lwsLog' = Append(lwsLog, [key |-> "process.memoryUsage", value |-> memoryUsage(m)])
  /\ UNCHANGED <<pc, options, thrown, nCalls, servers, aborted, resolverCalls,
                 factories, stack, app, now, emitters, bound, emitted>>

\* what keeps the process alive: a server told to listen and not closed, an
\* open socket, a timer that is not unref'ed
KeepsAlive ==
  \/ \E s \in 1..Len(servers) :
        \/ servers[s].listenInvoked /\ ~servers[s].closed
        \/ \E k \in 1..Len(servers[s].sockets) : servers[s].sockets[k].open
  \/ \E i \in 1..Len(timers) : timers[i].ref

\* the process exits when nothing keeps it alive
Exit ==
  /\ pc = "idle"
  /\ ~KeepsAlive
  /\ pc' = "exited"
  /\ UNCHANGED <<options, thrown, nCalls, servers, aborted, resolverCalls,
                 factories, stack, app, timers, now, emitters, bound, emitted, lwsLog>>

(* ----------------------- propagate between emitters ------------------- *)

\* the verbose events emitted on the emitters
VerboseEvents ==
  {[key |-> "middleware.config", value |-> "static"],
   [key |-> "server.config", value |-> "http"]}

\* the listener of propagate hands on the key only
reemit_KeyOnly(ev) == [key |-> ev.key, value |-> ""]

\* the listener of propagate: this.emit('verbose', key, value)
reemit(ev) == [key |-> ev.key, value |-> ev.value]

\* emitter.emit('verbose', key, value): the subscriber of the emitter sees
\* the event, then each listener of propagate, in the order they were
\* registered, emits it on its own Lws instance
RECURSIVE emit(_, _, _), forward(_, _, _, _)
emit(em, e, ev) ==
  forward([em EXCEPT ![e].seen = Append(@, ev)], e, 1, ev)

forward(em, e, i, ev) ==
  IF i > Len(em[e].targets)
  THEN em
  ELSE forward(emit(em, em[e].targets[i], reemit(ev)), e, i + 1, ev)

\* to.propagate(from): from.on('verbose', ...)
propagateInto(em, to, from) ==
  [em EXCEPT ![from].targets = Append(@, to)]

\* the calls of propagate made so far
RECURSIVE Links(_, _)
Links(em, es) ==
  IF es = {}
  THEN 0
  ELSE LET e == CHOOSE x \in es : TRUE
       IN  Len(em[e].targets) + Links(em, es \ {e})

\* the verbose events emitted so far
RECURSIVE Emits(_, _)
Emits(em, es) ==
  IF es = {}
  THEN 0
  ELSE LET e == CHOOSE x \in es : TRUE
       IN  Len(em[e].sent) + Emits(em, es \ {e})

\* an emitter is propagated only into one that comes before it: a circle of
\* propagations makes emit call itself without end
Before(to, from) ==
  \/ to = "A" /\ from \in {"B", "C"}
  \/ to = "B" /\ from = "C"

\* to.propagate(from)
PropagateInto(to, from) ==
  /\ pc = "idle"
  /\ Before(to, from)
  /\ Links(emitters, Emitters) < MaxLinks
  /\ emitters' = propagateInto(emitters, to, from)
  /\ UNCHANGED <<pc, options, thrown, nCalls, servers, aborted, resolverCalls,
                 factories, stack, app, timers, now, bound, emitted, lwsLog>>

\* e.emit('verbose', ev.key, ev.value)
Emit(e, ev) ==
  /\ pc = "idle"
  /\ Emits(emitters, Emitters) < MaxEmits
  /\ emitters' = [emit(emitters, e, ev) EXCEPT ![e].sent = Append(@, ev)]
  /\ UNCHANGED <<pc, options, thrown, nCalls, servers, aborted, resolverCalls,
                 factories, stack, app, timers, now, bound, emitted, lwsLog>>

(* --------------------------- specifications ---------------------------- *)

Servers == 1..MaxCalls

Sockets == 1..MaxSockets

Next ==
  \/ Listen
  \/ CreateServer
  \/ Tune
  \/ EventStream
  \/ Propagate
  \/ ValidateStack
  \/ Koa
  \/ OnRequest
  \/ ServerListen
  \/ Interval
  \/ \E s \in Servers : Listening(s)
  \/ \E s \in Servers : Connection(s)
  \/ \E s \in Servers, k \in Sockets, ev \in SocketEvents \ {"error"} :
       SocketEvent(s, k, ev, "")
  \/ \E s \in Servers, k \in Sockets, err \in SocketErrors :
       SocketEvent(s, k, "error", err)
  \/ \E s \in Servers, err \in AppErrors \cup {""} : Request(s, err)
  \/ \E s \in Servers : ServerClose(s)

Spec == Init /\ [][Next]_vars

\* createServer alone, on every combination of the options it reads
InitSelect ==
  /\ pc = "createServer"
  /\ options \in {deepMerge(o) : o \in SelectOptions}
  /\ thrown = NoError
  /\ nCalls = 1
  /\ servers = <<>>
  /\ aborted = {}
  /\ resolverCalls = 0
  /\ factories = 0
  /\ stack = <<>>
  /\ app = <<>>
  /\ timers = <<>>
  /\ now = 0
  /\ emitters = [e \in Emitters |-> NoListeners]
  /\ bound = [calls |-> MaxCalls, events |-> MaxEvents, sockets |-> MaxSockets,
              time |-> MaxTime, options |-> ListenOptions]
  /\ emitted = <<>>
  /\ lwsLog = <<>>

NextSelect == CreateServer

SpecSelect == InitSelect /\ [][NextSelect]_vars

\* one listen() call with no option set, and then the connections and the
\* closing of the sockets of its server
InitIds ==
  Start([calls |-> 1, events |-> MaxIdEvents, sockets |-> MaxIdSockets,
         time |-> MaxTime, options |-> {NoOptions}])

NextIds ==
  \/ Listen
  \/ CreateServer
  \/ Tune
  \/ EventStream
  \/ Propagate
  \/ ValidateStack
  \/ Koa
  \/ OnRequest
  \/ ServerListen
  \/ Interval
  \/ \E s \in Servers : Listening(s)
  \/ \E s \in Servers : Connection(s)
  \/ \E s \in Servers, k \in 1..MaxIdSockets : SocketEvent(s, k, "close", "")

SpecIds == InitIds /\ [][NextIds]_vars

\* the emitters joined by propagate, and the verbose events emitted on them
NextPropagate ==
  \/ \E to \in Emitters, from \in Emitters : PropagateInto(to, from)
  \/ \E e \in Emitters, ev \in VerboseEvents : Emit(e, ev)

SpecPropagate == Init /\ [][NextPropagate]_vars

\* one listen() call with no option set, and then every event of the
\* sockets of its server
InitBytes ==
  Start([calls |-> 1, events |-> MaxByteEvents, sockets |-> MaxSockets,
         time |-> MaxTime, options |-> {NoOptions}])

NextBytes ==
  \/ Listen
  \/ CreateServer
  \/ Tune
  \/ EventStream
  \/ Propagate
  \/ ValidateStack
  \/ Koa
  \/ OnRequest
  \/ ServerListen
  \/ Interval
  \/ \E s \in Servers : Listening(s)
  \/ \E s \in Servers : Connection(s)
  \/ \E s \in Servers, k \in Sockets, ev \in SocketEvents \ {"error"} :
       SocketEvent(s, k, ev, "")
  \/ \E s \in Servers, k \in Sockets, err \in SocketErrors :
       SocketEvent(s, k, "error", err)

SpecBytes == InitBytes /\ [][NextBytes]_vars

\* one listen() call with no option set, and then sockets that receive
\* data and report errors
InitErrors ==
  Start([calls |-> 1, events |-> MaxErrorEvents, sockets |-> MaxErrorSockets,
         time |-> MaxTime, options |-> {NoOptions}])

NextErrors ==
  \/ Listen
  \/ CreateServer
  \/ Tune
  \/ EventStream
  \/ Propagate
  \/ ValidateStack
  \/ Koa
  \/ OnRequest
  \/ ServerListen
  \/ Interval
  \/ \E s \in Servers : Listening(s)
  \/ \E s \in Servers : Connection(s)
  \/ \E s \in Servers, k \in 1..MaxErrorSockets : SocketEvent(s, k, "data", "")
  \/ \E s \in Servers, k \in 1..MaxErrorSockets, err \in SocketErrors :
       SocketEvent(s, k, "error", err)

SpecErrors == InitErrors /\ [][NextErrors]_vars

\* listen() calls that succeed or fail at the stack, the life of the
\* servers and of their sockets, the clock and the end of the process
TimerOptions ==
  {NoOptions, [NoOptions EXCEPT !.stack = Some(<<"A", "missing", "C">>)]}

InitTimer ==
  Start([calls |-> 2, events |-> MaxTimerEvents, sockets |-> 1,
         time |-> MaxTimerTime, options |-> TimerOptions])

NextTimer ==
  \/ Listen
  \/ CreateServer
  \/ Tune
  \/ EventStream
  \/ Propagate
  \/ ValidateStack
  \/ Koa
  \/ OnRequest
  \/ ServerListen
  \/ Interval
  \/ \E s \in Servers : Listening(s)
  \/ \E s \in Servers : Connection(s)
  \/ \E s \in Servers, k \in Sockets : SocketEvent(s, k, "close", "")
  \/ \E s \in Servers : ServerClose(s)
  \/ Advance
  \/ \E i \in 1..2 : MemoryUsage(i)
  \/ Exit

SpecTimer == InitTimer /\ [][NextTimer]_vars

\* two listen() calls with no option set on the one Lws instance, and then
\* connections and requests on the two servers
InitPair ==
  Start([calls |-> 2, events |-> MaxPairEvents, sockets |-> 1,
         time |-> MaxTime, options |-> {NoOptions}])

NextPair ==
  \/ Listen
  \/ CreateServer
  \/ Tune
  \/ EventStream
  \/ Propagate
  \/ ValidateStack
  \/ Koa
  \/ OnRequest
  \/ ServerListen
  \/ Interval
  \/ \E s \in Servers : Listening(s)
  \/ \E s \in Servers : Connection(s)
  \/ \E s \in Servers : Request(s, "")

SpecPair == InitPair /\ [][NextPair]_vars

(* ----------------------------- properties ----------------------------- *)

\* an option is set when JavaScript takes it for true: defined and not the
\* empty string
IsSet(x) == Truthy(x)

ConfigConflict == {ErrKeyCert, ErrHttpsPfx}

InvalidServerModule == {ErrBuiltin, ErrNotFunction}

CreateServerErrors == ConfigConflict \cup InvalidServerModule \cup {ErrModuleNotFound}

\* createServer has run in the running or last listen() call
CreateServerDone == nCalls > 0 /\ pc # "createServer"

CreateServerThrew == CreateServerDone /\ thrown \in CreateServerErrors

\* createServer has returned servers[cur]
CreateServerReturned == CreateServerDone /\ thrown \notin CreateServerErrors

KeyXorCert(o) == IsSet(o.key) # IsSet(o.cert)

PassesValidation(o) == ~KeyXorCert(o) /\ ~(o.https /\ IsSet(o.pfx))

HttpsRule(o) ==
  o.https \/ (~o.http2 /\ ((IsSet(o.key) /\ IsSet(o.cert)) \/ IsSet(o.pfx)))

\* the server option is looked at
ServerReached(o) ==
  PassesValidation(o) /\ ~HttpsRule(o) /\ ~o.http2 /\ IsSet(o.server)

ValidServer(o) ==
  /\ Val(o.server) \notin builtinModules
  /\ loadModule(Val(o.server)) = "function"

PriorityRule(o) ==
  IF HttpsRule(o) THEN "HTTPS"
  ELSE IF o.http2 THEN "HTTP2"
  ELSE IF IsSet(o.server) THEN "UserSupplied"
  ELSE "Base"

\* a step of createServer that throws err and leaves no trace: no factory
\* instantiated, no server created
FailsWith(errs) ==
  /\ pc' = "idle"
  /\ thrown' \in errs
  /\ factories' = factories
  /\ servers' = servers

\* C1: for options that pass the validation (and whose server module, where
\* the server option is looked at, is valid), createServer returns a server
\* of the factory the priority rule names.
C1_PriorityRule ==
  (/\ CreateServerDone
   /\ PassesValidation(options)
   /\ (ServerReached(options) => ValidServer(options)))
  => /\ CreateServerReturned
     /\ servers[cur].factory = PriorityRule(options)

C1_Witness ==
  /\ CreateServerReturned
  /\ options.http2 /\ IsSet(options.key) /\ IsSet(options.cert)
  /\ IsSet(options.server)
  /\ servers[cur].factory = "HTTP2"

\* C2: with exactly one of key and cert set, createServer throws a
\* ConfigConflict error without resolving a module, instantiating a factory
\* or creating a server.
C2_KeyXorCertFails ==
  [][(pc = "createServer" /\ KeyXorCert(options))
     => (FailsWith({ErrKeyCert}) /\ resolverCalls' = resolverCalls)]_vars

C2_Witness ==
  /\ CreateServerThrew
  /\ thrown = ErrKeyCert
  /\ ~IsSet(options.key) /\ IsSet(options.cert)
  /\ servers = <<>> /\ factories = 0 /\ resolverCalls = 0

\* C3: with https true and pfx set, createServer throws a ConfigConflict
\* error and creates no server, whatever key, cert, http2 and server are.
C3_HttpsPfxFails ==
  [][(pc = "createServer" /\ options.https /\ IsSet(options.pfx))
     => FailsWith(ConfigConflict)]_vars

C3_Witness ==
  /\ CreateServerThrew
  /\ thrown = ErrHttpsPfx
  /\ options.https /\ IsSet(options.pfx)
  /\ servers = <<>>

NoTls(o) ==
  ~IsSet(o.key) /\ ~IsSet(o.cert) /\ ~IsSet(o.pfx) /\ ~o.https /\ ~o.http2

\* C4 as stated: with key, cert and pfx absent and https and http2 false,
\* the Base factory is selected, whatever server is.
C4_BaseWhateverServer ==
  (CreateServerDone /\ NoTls(options))
  => (CreateServerReturned /\ servers[cur].factory = "Base")

\* C4, amended: with key, cert and pfx absent, https and http2 false and
\* server not set, the Base factory is selected.
C4_BaseWhenNoServer ==
  (CreateServerDone /\ NoTls(options) /\ ~IsSet(options.server))
  => (CreateServerReturned /\ servers[cur].factory = "Base")

C4_Witness ==
  /\ CreateServerReturned
  /\ NoTls(options) /\ ~IsSet(options.server)
  /\ servers[cur].factory = "Base"

\* C5 as stated: with https true the HTTPS decorator is selected, whatever
\* http2, key, cert, pfx and server are.
C5_HttpsWhateverRest ==
  (CreateServerDone /\ options.https)
  => (CreateServerReturned /\ servers[cur].factory = "HTTPS")

\* C5, amended: with https true and options that pass the validation (key
\* and cert both set or both not set, pfx not set), the HTTPS decorator is
\* selected, whatever http2 and server are.
C5_HttpsWhenValid ==
  (CreateServerDone /\ options.https /\ PassesValidation(options))
  => (CreateServerReturned /\ servers[cur].factory = "HTTPS")

C5_Witness ==
  /\ CreateServerReturned
  /\ options.https /\ options.http2 /\ IsSet(options.server)
  /\ servers[cur].factory = "HTTPS"

\* C6: when the server option is looked at, a built-in module name makes
\* createServer throw InvalidServerModule without a call of the module
\* resolver, and a resolved module that is not a function makes it throw
\* InvalidServerModule; neither instantiates a factory or creates a server.
C6_InvalidServerModule ==
  [][(pc = "createServer" /\ ServerReached(options))
     => /\ (Val(options.server) \in builtinModules)
             => (FailsWith({ErrBuiltin}) /\ resolverCalls' = resolverCalls)
        /\ (/\ Val(options.server) \notin builtinModules
            /\ loadModule(Val(options.server)) \notin {"function", "ModuleNotFound"})
             => FailsWith({ErrNotFunction})]_vars

C6_Witness ==
  /\ CreateServerThrew
  /\ ServerReached(options)
  /\ Val(options.server) \in builtinModules
  /\ thrown = ErrBuiltin
  /\ resolverCalls = 0 /\ factories = 0 /\ servers = <<>>

ServerIsBuiltin(o) == IsSet(o.server) /\ Val(o.server) \in builtinModules

\* C7 as stated: whenever createServer returns a server, key and cert are
\* both set or both not set, https and pfx are not both set, and server is
\* not the name of a built-in module.
C7_OptionsInvariant ==
  CreateServerReturned
  => /\ ~KeyXorCert(options)
     /\ ~(options.https /\ IsSet(options.pfx))
     /\ ~ServerIsBuiltin(options)

\* C7, amended: whenever createServer returns a server, key and cert are
\* both set or both not set, https and pfx are not both set, and, unless the
\* HTTPS or the HTTP2 decorator was selected, server is not the name of a
\* built-in module.
C7_OptionsInvariantWhenReached ==
  CreateServerReturned
  => /\ ~KeyXorCert(options)
     /\ ~(options.https /\ IsSet(options.pfx))
     /\ (servers[cur].factory \notin {"HTTPS", "HTTP2"} => ~ServerIsBuiltin(options))

C7_Witness ==
  /\ CreateServerReturned
  /\ servers[cur].factory = "UserSupplied"
  /\ IsSet(options.server) /\ ~ServerIsBuiltin(options)
  /\ ~IsSet(options.key) /\ ~IsSet(options.cert)

\* the servers created so far
Created == 1..Len(servers)

\* C8: a listen() call that fails in createServer creates no server; a
\* call that fails in the assembly of the middleware stack leaves a server
\* on which server.listen is never invoked and which never emits
\* 'listening'; either failure ends the call at once, with the error
\* thrown to the caller and nothing written to the verbose stream.
C8_FailedStartupNeverListens ==
  /\ [](\A s \in aborted :
          /\ ~servers[s].listenInvoked
          /\ ~servers[s].listening
          /\ \A i \in 1..Len(emitted) : emitted[i].server # s)
  /\ [][(thrown = NoError /\ thrown' # NoError)
        => /\ pc' = "idle"
           /\ lwsLog' = lwsLog
           /\ emitted' = emitted
           /\ timers' = timers
           /\ \A s \in Created : servers'[s].listenInvoked = servers[s].listenInvoked
           /\ (pc = "createServer" => servers' = servers)
           /\ (pc # "createServer" => Len(servers') = Len(servers) /\ cur \in aborted')]_vars

C8_Witness ==
  /\ aborted = {1}
  /\ Len(servers) = 2
  /\ servers[2].listening
  /\ ~servers[1].listenInvoked

\* the key of the verbose event an event of a server or of one of its
\* sockets is reported with
ReportKey(e) ==
  CASE e.socket = 0 /\ e.ev = "listening" -> "server.listening"
    [] e.socket = 0 /\ e.ev = "close" -> "server.close"
    [] e.socket # 0 /\ e.ev = "connection" -> "server.socket.new"
    [] e.socket # 0 /\ e.ev \in {"connect", "lookup"} -> "server.socket.connect"
    [] e.socket # 0 /\ e.ev = "data" -> "server.socket.data"
    [] e.socket # 0 /\ e.ev = "drain" -> "server.socket.drain"
    [] e.socket # 0 /\ e.ev = "timeout" -> "server.socket.timeout"
    [] e.socket # 0 /\ e.ev = "close" -> "server.socket.close"
    [] e.socket # 0 /\ e.ev = "error" -> "server.socket.error"
    [] e.socket # 0 /\ e.ev = "end" -> "server.socket.end"

ServerKeys ==
  {"server.listening", "server.close", "server.socket.new",
   "server.socket.connect", "server.socket.data", "server.socket.drain",
   "server.socket.timeout", "server.socket.close", "server.socket.error",
   "server.socket.end"}

IsLifecycleEvent(e) == e.ev # "request"

IsServerReport(v) == v.key \in ServerKeys

\* the connection, socket, close and listening events emitted so far
LifecycleEvents == SelectSeq(emitted, IsLifecycleEvent)

\* the verbose events about servers and sockets the Lws subscriber has seen
ServerReports == SelectSeq(lwsLog, IsServerReport)

\* C9: when server.listen is invoked the event-stream listeners are on the
\* server and its verbose events are propagated to the Lws instance; and
\* every connection, socket, close and listening event emitted so far has
\* been seen, in order, as a verbose event by the subscriber of the Lws
\* instance.
C9_NoLifecycleEventLost ==
  /\ \A s \in Created :
       servers[s].listenInvoked
       => /\ {"connection", "close", "listening"} \subseteq servers[s].on
          /\ servers[s].verboseListeners > 0
  /\ Len(ServerReports) = Len(LifecycleEvents)
  /\ \A i \in 1..Len(LifecycleEvents) :
       i <= Len(ServerReports) => ServerReports[i].key = ReportKey(LifecycleEvents[i])

C9_Witness ==
  /\ Len(emitted) = 3
  /\ emitted[1].ev = "listening"
  /\ emitted[2].ev = "connection"
  /\ emitted[3].ev = "end"
  /\ Len(lwsLog) = 3
  /\ lwsLog[3].key = "server.socket.end"

\* the handler functions of the specs of a stack option, in the order of
\* the specs
HandlersInOrder(o) ==
  LET specs == arrayify(o.stack)
  IN  [i \in 1..Len(specs) |-> <<"fn", specs[i]>>]

IsAppListener(l) == l.listener = "app"

AppListeners(server) == SelectSeq(server.requestListeners, IsAppListener)

\* C10: when the application callback is about to be attached, and from
\* then on, the application holds the handler functions of the stack's
\* specs, each once, in the order of the specs; the callback attached to
\* 'request' runs exactly these; and it is attached when server.listen is
\* invoked.
C10_MiddlewareOrder ==
  /\ pc \in {"onRequest", "listen", "interval"} => app = HandlersInOrder(options)
  /\ \A s \in Created :
       /\ Len(AppListeners(servers[s])) <= 1
       /\ \A i \in 1..Len(AppListeners(servers[s])) :
            AppListeners(servers[s])[i].middleware = HandlersInOrder(servers[s].options)
       /\ servers[s].listenInvoked => Len(AppListeners(servers[s])) = 1

C10_Witness ==
  /\ Len(servers) > 0
  /\ servers[1].listening
  /\ servers[1].options.stack = Some(<<"A", "B", "C">>)
  /\ Len(AppListeners(servers[1])) = 1
  /\ AppListeners(servers[1])[1].middleware = <<<<"fn", "A">>, <<"fn", "B">>, <<"fn", "C">>>>

IsNewSocketReport(v) == v.key = "server.socket.new"

\* the reports of new sockets the Lws subscriber has seen
NewSocketReports == SelectSeq(lwsLog, IsNewSocketReport)

\* C11: on one server the n-th connection gets the id n and is reported
\* with it, whatever sockets were closed before; the id of a socket never
\* changes and the counter of the server never goes down.
C11_ConnectionIds ==
  /\ [](\A s \in Created :
          /\ \A k \in 1..Len(servers[s].sockets) : servers[s].sockets[k].id = k
          /\ servers[s].cId > 0 => servers[s].cId = Len(servers[s].sockets) + 1)
  /\ [](Len(servers) = 1 =>
          \A n \in 1..Len(NewSocketReports) : NewSocketReports[n].value.socketId = n)
  /\ [][\A s \in Created :
          /\ servers'[s].cId >= servers[s].cId
          /\ \A k \in 1..Len(servers[s].sockets) :
               servers'[s].sockets[k].id = servers[s].sockets[k].id]_vars

C11_Witness ==
  /\ Len(servers) = 1
  /\ Len(servers[1].sockets) = 4
  /\ \A k \in 1..3 : ~servers[1].sockets[k].open
  /\ servers[1].sockets[4].open
  /\ servers[1].sockets[4].id = 4
  /\ NewSocketReports[4].value.socketId = 4

\* the events ev the server s has emitted so far
EventsOf(s, ev) ==
  SelectSeq(emitted, LAMBDA e : e.server = s /\ e.ev = ev)

\* C12: the two counters of a server start at 1; the connection counter is
\* one more than the connections the server has had and the request counter
\* one more than the requests it has had, so that neither counter moves with
\* the other or is ever set back; a socket's id is the number of its
\* connection and never changes.
C12_IndependentCounters ==
  /\ [](\A s \in Created :
          "connection" \in servers[s].on
          => /\ servers[s].cId = 1 + Len(EventsOf(s, "connection"))
             /\ servers[s].requestId = 1 + Len(EventsOf(s, "request"))
             /\ \A k \in 1..Len(servers[s].sockets) : servers[s].sockets[k].id = k)
  /\ [][pc = "eventStream" => (servers'[cur].cId = 1 /\ servers'[cur].requestId = 1)]_vars
  /\ [][\A s \in Created :
          /\ servers'[s].requestId >= servers[s].requestId
          /\ servers'[s].cId >= servers[s].cId
          /\ \A k \in 1..Len(servers[s].sockets) :
               servers'[s].sockets[k].id = servers[s].sockets[k].id]_vars

C12_Witness ==
  /\ Len(servers) = 1
  /\ Len(EventsOf(1, "request")) = 1
  /\ servers[1].requestId = 2
  /\ servers[1].cId = 2
  /\ servers[1].sockets[1].id = 1

\* A propagates B, B propagates C, and nothing else is propagated
Chain ==
  /\ emitters["C"].targets = <<"B">>
  /\ emitters["B"].targets = <<"A">>
  /\ emitters["A"].targets = <<>>

\* C13: when A propagates B and B propagates C, a verbose event emitted on
\* C is seen once by the subscriber of A, after the events it has seen
\* before and with the key and the value it was emitted with.
C13_PropagateComposes ==
  [][\A ev \in VerboseEvents :
       (Chain /\ emitters'["C"].sent = Append(emitters["C"].sent, ev))
       => emitters'["A"].seen = Append(emitters["A"].seen, ev)]_vars

C13_Witness ==
  /\ Chain
  /\ Len(emitters["C"].sent) = 2
  /\ emitters["C"].sent[1] # emitters["C"].sent[2]
  /\ emitters["A"].seen = emitters["C"].sent

\* the events of a socket reported with its id and its byte counters
MonitoredEvents ==
  {"connection", "connect", "data", "drain", "timeout", "close", "end"}

\* the payload that renders what the socket's counters are now
FreshPayload(socket) ==
  [socketId |-> socket.id,
   bytesRead |-> byteSize(socket.bytesRead),
   bytesWritten |-> byteSize(socket.bytesWritten)]

\* C14: when a socket has emitted one of the monitored events, the verbose
\* event that reports it carries the socket's id and the rendering of its
\* byte counters as they are when the event fires.
C14_CountersRefreshed ==
  (/\ emitted # <<>>
   /\ emitted[Len(emitted)].socket # 0
   /\ emitted[Len(emitted)].ev \in MonitoredEvents)
  => LET e == emitted[Len(emitted)]
         socket == servers[e.server].sockets[e.socket]
     IN  /\ lwsLog # <<>>
         /\ lwsLog[Len(lwsLog)].key = ReportKey(e)
         /\ lwsLog[Len(lwsLog)].value = FreshPayload(socket)

\* the payload C15 describes for the server's 'listening' event
ListeningPayload(server) ==
  LET scheme == IF server.addContext THEN "https" ELSE "http"
      port == ToString(Val(server.options.port))
  IN  IF IsSet(server.options.hostname)
      THEN <<scheme \o "://" \o Val(server.options.hostname) \o ":" \o port>>
      ELSE [i \in 1..Len(getIPList) |->
              scheme \o "://" \o getIPList[i].address \o ":" \o port]

\* C15: when a server emits 'listening', the server.listening event carries
\* exactly one URL scheme://hostname:port if a hostname is configured, else
\* one URL scheme://address:port per network interface in interface order;
\* the scheme is https when the server has addContext and http otherwise.
C15_ListeningPayload ==
  [][\A s \in Servers :
       (/\ s <= Len(servers)
        /\ emitted' = Append(emitted, [server |-> s, socket |-> 0,
                                       ev |-> "listening", arg |-> ""]))
       => lwsLog' = Append(lwsLog, [key |-> "server.listening",
                                    value |-> ListeningPayload(servers[s])])]_vars

C15_Witness ==
  /\ \E i \in 1..Len(lwsLog) :
       lwsLog[i] = [key |-> "server.listening",
                    value |-> <<"http://10.0.0.1:8000", "http://192.168.1.1:8000">>]
  /\ \E i \in 1..Len(lwsLog) :
       lwsLog[i] = [key |-> "server.listening", value |-> <<"https://localhost:9000">>]

\* the step in which socket k of server s emits ev
SocketEmits(s, k, ev, arg) ==
  /\ s <= Len(servers)
  /\ emitted' = Append(emitted, [server |-> s, socket |-> k, ev |-> ev, arg |-> arg])

\* socket k of server s has reported an error
HasFailed(s, k) ==
  \E i \in 1..Len(emitted) :
    emitted[i].server = s /\ emitted[i].socket = k /\ emitted[i].ev = "error"

\* C16: when a socket emits 'error', exactly one verbose event
\* server.socket.error with the payload {err} of that error is emitted,
\* nothing is thrown and the program goes on, the server is neither closed
\* nor stopped, and the other sockets are left as they are; an event of a
\* socket that follows the error of another socket is reported.
C16_SocketErrorNonFatal ==
  /\ [][\A s \in Servers, k \in 1..MaxErrorSockets, err \in SocketErrors :
          SocketEmits(s, k, "error", err)
          => /\ lwsLog' = Append(lwsLog, [key |-> "server.socket.error",
                                         value |-> [err |-> err]])
             /\ pc' = pc
             /\ thrown' = thrown
             /\ servers'[s].closed = servers[s].closed
             /\ servers'[s].listening = servers[s].listening
             /\ \A j \in 1..Len(servers[s].sockets) :
                  j # k => servers'[s].sockets[j] = servers[s].sockets[j]]_vars
  /\ [][\A s \in Servers, j \in 1..MaxErrorSockets,
          ev \in SocketEvents \ {"error"} :
          (/\ SocketEmits(s, j, ev, "")
           /\ \E k \in 1..MaxErrorSockets : k # j /\ HasFailed(s, k))
          => /\ Len(lwsLog') = Len(lwsLog) + 1
             /\ lwsLog'[Len(lwsLog')].key = socketKey(ev)
             /\ lwsLog'[Len(lwsLog')].value.socketId = j]_vars

C16_Witness ==
  /\ pc = "idle"
  /\ Len(servers) = 1
  /\ thrown = "none"
  /\ servers[1].listening /\ ~servers[1].closed
  /\ \E i \in 1..Len(lwsLog), j \in 1..Len(lwsLog) :
       /\ i < j
       /\ lwsLog[i].key = "server.socket.error"
       /\ lwsLog[i].value = [err |-> "ECONNRESET"]
       /\ lwsLog[j].key = "server.socket.data"
       /\ lwsLog[j].value.socketId = 2
       /\ lwsLog[j].value.bytesRead = byteSize(600)

\* the servers server.listen has been invoked on
Listened == {s \in 1..Len(servers) : servers[s].listenInvoked}

\* a server that has been told to listen and is not closed, or an open socket
ServerOrSocketAlive ==
  \E s \in 1..Len(servers) :
    \/ servers[s].listenInvoked /\ ~servers[s].closed
    \/ \E k \in 1..Len(servers[s].sockets) : servers[s].sockets[k].open

WiredOrListening(server) == server.on # {} \/ server.listenInvoked

\* C18: the tuning step of listen() gives the server the maxConnections and
\* the keepAliveTimeout of the options when they are defined, 0 included,
\* and leaves what the factory set when they are not; it runs before the
\* event wiring and before server.listen, and nothing changes the two
\* attributes afterwards.
C18_Tuning ==
  /\ [][(pc = "tune" /\ pc' = "eventStream")
        => LET before == servers[Len(servers)]
               after == servers'[Len(servers)]
           IN  /\ ~WiredOrListening(before)
               /\ after.maxConnections =
                    IF options.maxConnections # None
                    THEN options.maxConnections ELSE before.maxConnections
               /\ after.keepAliveTimeout =
                    IF options.keepAliveTimeout # None
                    THEN options.keepAliveTimeout ELSE before.keepAliveTimeout]_vars
  /\ [](\A s \in 1..Len(servers) :
          WiredOrListening(servers[s])
          => /\ servers[s].options.maxConnections # None
                => servers[s].maxConnections = servers[s].options.maxConnections
             /\ servers[s].options.keepAliveTimeout # None
                => servers[s].keepAliveTimeout = servers[s].options.keepAliveTimeout)
  /\ [][\A s \in 1..Len(servers) :
          WiredOrListening(servers[s])
          => /\ servers'[s].maxConnections = servers[s].maxConnections
             /\ servers'[s].keepAliveTimeout = servers[s].keepAliveTimeout]_vars

C18_Witness ==
  \E s \in 1..Len(servers), t \in 1..Len(servers) :
    /\ servers[s].listening
    /\ servers[s].options.maxConnections = Some(0)
    /\ servers[s].maxConnections = Some(0)
    /\ servers[s].options.keepAliveTimeout = None
    /\ servers[s].keepAliveTimeout = factoryCreate("http", FALSE, NoOptions).keepAliveTimeout
    /\ servers[t].listening
    /\ servers[t].options.keepAliveTimeout = Some(0)
    /\ servers[t].keepAliveTimeout = Some(0)
    /\ servers[t].options.maxConnections = None
    /\ servers[t].maxConnections = None

\* the counters of the servers other than s are what they were
OthersKeepCounters(s) ==
  \A t \in 1..Len(servers) :
    t # s => /\ servers'[t].cId = servers[t].cId
             /\ servers'[t].requestId = servers[t].requestId

\* C19: each listen() call has counters of its own: the first connection of
\* every server gets the socketId 1 and is reported with it, its first
\* request the id 1, and a connection or a request on one server leaves the
\* counters of the other servers as they are.
C19_CountersPerCall ==
  /\ [][\A s \in Servers :
          (/\ SocketEmits(s, 1, "connection", "")
           /\ servers[s].sockets = <<>>)
          => /\ servers'[s].sockets[1].id = 1
             /\ lwsLog'[Len(lwsLog')].key = "server.socket.new"
             /\ lwsLog'[Len(lwsLog')].value.socketId = 1
             /\ OthersKeepCounters(s)]_vars
  /\ [][\A s \in Servers :
          SocketEmits(s, 0, "request", "")
          => /\ servers[s].seenByApp = <<>> => servers'[s].seenByApp = <<1>>
             /\ OthersKeepCounters(s)]_vars

\* two sockets with the same socketId on the one verbose stream
C19_Witness ==
  /\ Len(servers) = 2
  /\ servers[1].sockets # <<>> /\ servers[1].sockets[1].id = 1
  /\ servers[2].sockets # <<>> /\ servers[2].sockets[1].id = 1
  /\ servers[1].seenByApp = <<1>>
  /\ servers[2].seenByApp = <<1>>
  /\ \E i \in 1..Len(lwsLog), j \in 1..Len(lwsLog) :
       /\ i < j
       /\ lwsLog[i].key = "server.socket.new"
       /\ lwsLog[j].key = "server.socket.new"
       /\ lwsLog[i].value.socketId = 1
       /\ lwsLog[j].value.socketId = 1

\* the place of a listener among the 'request' listeners of a server, 0
\* when it is not one of them
ListenerAt(server, name) ==
  IF \E i \in 1..Len(server.requestListeners) :
       server.requestListeners[i].listener = name
  THEN CHOOSE i \in 1..Len(server.requestListeners) :
         server.requestListeners[i].listener = name
  ELSE 0

\* C20: on every server the listener that numbers the requests comes before
\* the application callback, so the application sees each request with its
\* id already set, the n-th request with the id n, and the counter already
\* one further.
C20_RequestIdBeforeApp ==
  /\ [](\A s \in 1..Len(servers) :
          /\ ListenerAt(servers[s], "app") # 0
             => /\ ListenerAt(servers[s], "requestId") # 0
                /\ ListenerAt(servers[s], "requestId") < ListenerAt(servers[s], "app")
          /\ \A i \in 1..Len(servers[s].seenByApp) : servers[s].seenByApp[i] = i)
  /\ [][\A s \in Servers :
          SocketEmits(s, 0, "request", "")
          => /\ servers'[s].seenByApp = Append(servers[s].seenByApp, servers[s].requestId)
             /\ servers[s].requestId >= 1
             /\ servers'[s].requestId = servers[s].requestId + 1]_vars

C20_Witness ==
  \E s \in 1..Len(servers) :
    /\ servers[s].seenByApp = <<1, 2>>
    /\ servers[s].requestId = 3

====
